---------------------------- MODULE Spec2Model ----------------------------
(***************************************************************************)
(* A state-machine model of train_model                                    *)
(* (sklearn_classifier_dask/sklearn_classifier_dask.py).                   *)
(*                                                                         *)
(* One action per statement group of the handler, split at the calls that  *)
(* can raise.  A frame holds its rows by value, one tuple of cells per     *)
(* row.  Floats are modelled by integers, fractions by integer             *)
(* percentages.  The calls that import the dask function, read the data    *)
(* item, fit the model, generate a report or write to the artifact store   *)
(* either return or raise, nondeterministically; nothing in the handler    *)
(* catches an exception.                                                   *)
(***************************************************************************)
EXTENDS Integers, Sequences, FiniteSets, TLC

\* ---------------------------------------------------------------- bounds
\* train_model is invoked at most MaxRuns times with the same arguments.
MaxRuns == 2

\* ------------------------------------------------------------- data model
NumericDtypes == {"int16", "int32", "int64", "float16", "float32", "float64"}

\* The datasets the dataset argument ranges over.
\*   cols  : the frame's columns, in order, with their dtypes
\*   rows  : the rows, one tuple of cells each, in file order
\*   parts : rows per dask partition
\*   nulls : the columns that hold a missing value
Col(n, t) == [name |-> n, dtype |-> t]

\* The two label values of the numeric datasets.
Lab(r) == IF r % 2 = 0 THEN 7 ELSE 3

\* A hundred rows: ninety-nine alike and one of the other class.
Hundred(common, other) == [r \in 1..100 |-> IF r < 100 THEN common ELSE other]

DS_ScenarioA ==
    [cols |-> <<Col("f1", "float64"), Col("f2", "float64"), Col("label", "object")>>,
     rows |-> Hundred(<<1, 52, "a">>, <<2, 54, "b">>),
     parts |-> <<100>>, nulls |-> {}]
DS_Numeric100 ==
    [cols |-> <<Col("f1", "float64"), Col("f2", "float64"), Col("label", "int64")>>,
     rows |-> Hundred(<<1, 52, 3>>, <<2, 54, 7>>),
     parts |-> <<100>>, nulls |-> {}]
DS_Numeric100x3 ==
    [cols |-> <<Col("f1", "float64"), Col("f2", "float64"), Col("label", "int64")>>,
     rows |-> Hundred(<<1, 52, 3>>, <<2, 54, 7>>),
     parts |-> <<33, 33, 34>>, nulls |-> {}]
DS_LabelLast ==
    [cols |-> <<Col("f1", "float64"), Col("f2", "float64"), Col("label", "int64")>>,
     rows |-> [r \in 1..3 |-> <<r, 2 * r + 50, Lab(r)>>],
     parts |-> <<3>>, nulls |-> {}]
DS_LabelFirst ==
    [cols |-> <<Col("label", "int64"), Col("f1", "float64"), Col("f2", "float64")>>,
     rows |-> [r \in 1..4 |-> <<Lab(r), r, 2 * r + 50>>],
     parts |-> <<2, 2>>, nulls |-> {}]
DS_LabelMiddle ==
    [cols |-> <<Col("f1", "float64"), Col("label", "int64"), Col("f2", "float64")>>,
     rows |-> [r \in 1..3 |-> <<r, Lab(r), 2 * r + 50>>],
     parts |-> <<3>>, nulls |-> {}]
DS_NullFeature ==
    [cols |-> <<Col("f1", "float64"), Col("f2", "float64"), Col("label", "int64")>>,
     rows |-> [r \in 1..3 |-> <<r, 2 * r + 50, Lab(r)>>],
     parts |-> <<3>>, nulls |-> {"f2"}]
DS_NullText ==
    [cols |-> <<Col("f1", "float64"), Col("name", "object"), Col("label", "int64")>>,
     rows |-> [r \in 1..3 |-> <<r, "n", Lab(r)>>],
     parts |-> <<3>>, nulls |-> {"name"}]
DS_NoLabel ==
    [cols |-> <<Col("f1", "float64"), Col("f2", "float64")>>,
     rows |-> [r \in 1..3 |-> <<r, 2 * r + 50>>],
     parts |-> <<3>>, nulls |-> {}]

Datasets ==
    {DS_ScenarioA, DS_Numeric100, DS_Numeric100x3, DS_LabelLast, DS_LabelFirst,
     DS_LabelMiddle, DS_NullFeature, DS_NullText, DS_NoLabel}

\* str(i) of a label value (line 95).
Str(v) == CASE v = 3 -> "3" [] v = 7 -> "7" [] OTHER -> "?"

\* ---------------------------------------------------------------- helpers
Range(s) == {s[i] : i \in 1..Len(s)}

\* The sum of a sequence of numbers, halves first.
RECURSIVE Sum(_)
Sum(s) ==
    IF s = <<>> THEN 0
    ELSE IF Len(s) = 1 THEN s[1]
    ELSE LET h == Len(s) \div 2
         IN  Sum(SubSeq(s, 1, h)) + Sum(SubSeq(s, h + 1, Len(s)))

RECURSIVE Flatten(_)
Flatten(ss) == IF ss = <<>> THEN <<>> ELSE Head(ss) \o Flatten(Tail(ss))

Min(S) == CHOOSE x \in S : \A y \in S : x <= y

RECURSIVE SortSet(_)
SortSet(S) == IF S = {} THEN <<>> ELSE <<Min(S)>> \o SortSet(S \ {Min(S)})

\* The first position of x in s.
IndexOf(s, x) == Min({i \in 1..Len(s) : s[i] = x})

IsPrefix(s, t) == Len(s) <= Len(t) /\ \A i \in 1..Len(s) : s[i] = t[i]

\* s without its element at position i.
Without(s, i) == SubSeq(s, 1, i - 1) \o SubSeq(s, i + 1, Len(s))

\* The cells of a row at the given positions.
Project(row, idx) == [j \in 1..Len(idx) |-> row[idx[j]]]

\* The distinct elements of s in order of first appearance (drop_duplicates).
RECURSIVE DropDuplicates(_)
DropDuplicates(s) ==
    IF s = <<>> THEN <<>>
    ELSE LET h == Head(s)
         IN <<h>> \o DropDuplicates(SelectSeq(Tail(s), LAMBDA x : x # h))

\* Python's round(num / den): halves go to the even neighbour.
RoundHalfEven(num, den) ==
    LET q == num \div den
        r == num % den
    IN  IF 2 * r < den THEN q
        ELSE IF 2 * r > den THEN q + 1
        ELSE IF q % 2 = 0 THEN q ELSE q + 1

Ceil(num, den) == IF num % den = 0 THEN num \div den ELSE num \div den + 1

\* ------------------------------------------------- the pipeline's functions
\* dataset.as_df(df_module=dd): the rows, cut into the dataset's partitions.
AsDf(ds) ==
    [cols  |-> ds.cols,
     parts |-> [i \in 1..Len(ds.parts) |->
                  SubSeq(ds.rows, Sum(SubSeq(ds.parts, 1, i - 1)) + 1,
                                  Sum(SubSeq(ds.parts, 1, i)))]]

\* The positions of the columns of a numeric dtype.
NumericPositions(cols) ==
    SelectSeq([i \in 1..Len(cols) |-> i], LAMBDA i : cols[i].dtype \in NumericDtypes)

\* df.select_dtypes(include=numerics): the columns of a numeric dtype, in
\* order, and each row's cells in them.
SelectDtypes(frame) ==
    LET idx == NumericPositions(frame.cols)
    IN  [cols  |-> Project(frame.cols, idx),
         parts |-> [i \in 1..Len(frame.parts) |->
                      [j \in 1..Len(frame.parts[i]) |-> Project(frame.parts[i][j], idx)]]]

Names(cols) == [i \in 1..Len(cols) |-> cols[i].name]

\* df.isna().any().any().compute(): some column of the frame holds a missing value.
\* (HasNA_EveryColumn: .all() written for the first .any().)
HasNA_EveryColumn(cols, nulls) == \A i \in 1..Len(cols) : cols[i].name \in nulls
HasNA(cols, nulls) == \E i \in 1..Len(cols) : cols[i].name \in nulls

\* df[c] finds column c (it raises KeyError otherwise).
HasColumn(names, c) == c \in Range(names)

\* pandas' sample(frac=...) on one partition takes round(frac * len) rows.
SampleSize(n, pct) == RoundHalfEven(pct * n, 100)

\* The distinct rows of p, in order of first appearance, each with the number
\* of times it occurs.
Tally(p) ==
    LET d == DropDuplicates(p)
    IN  [i \in 1..Len(d) |->
            [v |-> d[i], n |-> Cardinality({j \in 1..Len(p) : p[j] = d[i]})]]

\* k rows drawn from the tally t one after the other, without replacement.
RECURSIVE Draws(_, _)
Draws(t, k) ==
    IF k = 0 THEN {<<>>}
    ELSE UNION {{<<t[i].v>> \o r : r \in Draws([t EXCEPT ![i].n = @ - 1], k - 1)}
                : i \in {j \in 1..Len(t) : t[j].n > 0}}

\* The tally t once the rows of a are taken out of it.
Less(t, a) ==
    [i \in 1..Len(t) |->
        [t[i] EXCEPT !.n = @ - Cardinality({j \in 1..Len(a) : a[j] = t[i].v})]]

\* The least b with b * b >= k.
Root(k) == Min({b \in 0..k : b * b >= k})

\* k rows drawn from the tally t in batches of Root(k) rows: the same
\* outcomes as Draws(t, k), by a shallower recursion.
RECURSIVE Batches(_, _)
Batches(t, k) ==
    IF k <= 1 THEN Draws(t, k)
    ELSE UNION {{a \o r : r \in Batches(Less(t, a), k - Root(k))}
                : a \in Draws(t, Root(k))}

\* What an unseeded sample of k rows of partition p can return: k of its
\* rows, drawn without replacement, in any order.
SampleOrders(p, k) == Batches(Tally(p), k)

\* df.sample(frac=sample): dask samples each partition on its own.
RECURSIVE SampleOutcomes(_, _)
SampleOutcomes(ps, pct) ==
    IF ps = <<>> THEN {<<>>}
    ELSE {<<h>> \o t : h \in SampleOrders(Head(ps), SampleSize(Len(Head(ps)), pct)),
                       t \in SampleOutcomes(Tail(ps), pct)}

\* LabelEncoder.fit: classes_ is the sorted distinct label values.
LabelEncoderFit(values) == SortSet(Range(values))

\* LabelEncoder.transform: a value's zero-based position in classes_.
LabelEncoderTransform(classes_, v) == IndexOf(classes_, v) - 1

\* sklearn's _validate_shuffle_split for float sizes, applied per block:
\* n_test = ceil(test_size * n), n_train = floor(train_size * n).
SplitSizes(n, train_pct) ==
    [n_train |-> (train_pct * n) \div 100,
     n_test  |-> Ceil((100 - train_pct) * n, 100)]

\* The seed dask_ml's ShuffleSplit draws for block i: the i-th 32-bit output
\* of numpy's RandomState(random_state).  A seed is written as its decimal
\* numeral (it exceeds the checker's integers); tabulated for the
\* random_state and the block counts of ArgSpace.
BlockSeed(random_state, i) ==
    CASE random_state = 42 /\ i = 1 -> "1608637542"
      [] random_state = 42 /\ i = 2 -> "3421126067"
      [] random_state = 42 /\ i = 3 -> "4083286876"

\* RandomState(seed).permutation(n), one-based: numpy's shuffle of 1..n on
\* the Mersenne Twister seeded with seed, tabulated for the block seeds
\* above and the block sizes the datasets of ArgSpace produce.
Permutation(seed, n) ==
    CASE seed = "1608637542" /\ n = 1 ->
            <<1>>
      [] seed = "1608637542" /\ n = 2 ->
            <<1, 2>>
      [] seed = "1608637542" /\ n = 3 ->
            <<3, 1, 2>>
      [] seed = "1608637542" /\ n = 4 ->
            <<3, 1, 2, 4>>
      [] seed = "1608637542" /\ n = 16 ->
            <<6, 7, 5, 2, 9, 16, 4, 1, 13, 8, 15, 3, 14, 11, 10, 12>>
      [] seed = "1608637542" /\ n = 33 ->
            <<17, 6, 25, 15, 12, 29, 16, 24, 4, 1, 9, 23, 18, 33, 2, 30, 22,
              5, 14, 7, 21, 31, 19, 20, 26, 8, 32, 3, 13, 11, 27, 10, 28>>
      [] seed = "1608637542" /\ n = 50 ->
            <<17, 26, 32, 31, 50, 36, 38, 22, 47, 16, 37, 24, 2, 6, 30, 41,
              49, 23, 12, 4, 1, 35, 15, 9, 27, 34, 46, 33, 48, 45, 44, 19,
              18, 5, 14, 7, 21, 39, 43, 20, 25, 8, 29, 40, 10, 3, 13, 11, 42,
              28>>
      [] seed = "1608637542" /\ n = 100 ->
            <<27, 61, 64, 11, 41, 45, 25, 39, 81, 96, 16, 73, 78, 6, 90, 13,
              31, 82, 86, 94, 49, 30, 70, 17, 58, 51, 91, 97, 55, 26, 48, 32,
              36, 8, 19, 95, 68, 34, 71, 2, 56, 53, 22, 37, 38, 21, 63, 46,
              12, 43, 76, 100, 24, 66, 79, 87, 28, 88, 99, 84, 44, 40, 74,
              59, 1, 65, 57, 50, 54, 67, 47, 23, 4, 60, 33, 15, 9, 80, 5, 35,
              98, 52, 83, 18, 69, 14, 7, 85, 29, 62, 20, 89, 72, 93, 10, 3,
              77, 75, 42, 92>>
      [] seed = "3421126067" /\ n = 1 ->
            <<1>>
      [] seed = "3421126067" /\ n = 2 ->
            <<2, 1>>
      [] seed = "3421126067" /\ n = 3 ->
            <<2, 3, 1>>
      [] seed = "3421126067" /\ n = 4 ->
            <<2, 3, 4, 1>>
      [] seed = "3421126067" /\ n = 16 ->
            <<12, 15, 2, 4, 16, 8, 6, 7, 13, 10, 11, 3, 14, 1, 5, 9>>
      [] seed = "3421126067" /\ n = 33 ->
            <<18, 21, 24, 32, 33, 20, 16, 28, 19, 9, 7, 6, 13, 27, 2, 12, 8,
              26, 4, 29, 14, 22, 23, 17, 15, 10, 11, 3, 30, 1, 31, 5, 25>>
      [] seed = "4083286876" /\ n = 1 ->
            <<1>>
      [] seed = "4083286876" /\ n = 2 ->
            <<1, 2>>
      [] seed = "4083286876" /\ n = 3 ->
            <<1, 2, 3>>
      [] seed = "4083286876" /\ n = 4 ->
            <<1, 2, 3, 4>>
      [] seed = "4083286876" /\ n = 17 ->
            <<6, 11, 14, 4, 12, 3, 7, 10, 16, 9, 17, 1, 5, 13, 2, 15, 8>>
      [] seed = "4083286876" /\ n = 34 ->
            <<10, 32, 19, 3, 18, 22, 12, 14, 30, 7, 6, 29, 5, 23, 4, 24, 9,
              16, 20, 27, 1, 25, 26, 2, 11, 15, 8, 28, 17, 34, 33, 21, 13,
              31>>

\* dask_ml's _generate_idx: the first n_test of the permutation are the test
\* rows, the next n_train the train rows.
GenerateIdx(n, seed, n_train, n_test) ==
    LET idx == Permutation(seed, n)
    IN  [train |-> SubSeq(idx, n_test + 1, n_train + n_test),
         test  |-> SubSeq(idx, 1, n_test)]

\* model_selection.train_test_split on dask arrays: a blockwise shuffle split.
\* ok is FALSE where sklearn raises (a block whose train part would be empty).
TrainTestSplit(chunks, train_pct, random_state) ==
    LET sz(i)  == SplitSizes(chunks[i], train_pct)
        off(i) == Sum(SubSeq(chunks, 1, i - 1))
        blk(i) == GenerateIdx(chunks[i], BlockSeed(random_state, i),
                              sz(i).n_train, sz(i).n_test)
        shift(s, d) == [j \in 1..Len(s) |-> s[j] + d]
    IN  [ok    |-> \A i \in 1..Len(chunks) : sz(i).n_train > 0,
         train |-> Flatten([i \in 1..Len(chunks) |-> shift(blk(i).train, off(i))]),
         test  |-> Flatten([i \in 1..Len(chunks) |-> shift(blk(i).test, off(i))])]

Take(s, idx) == [j \in 1..Len(idx) |-> s[idx[j]]]

\* StandardScaler.fit(X_train): per feature, the statistics that fix mean_
\* (sum / count) and var_ (sumsq / count - mean_^2).
StandardScalerFit(rows, width) ==
    [count |-> Len(rows),
     sum   |-> [j \in 1..width |-> Sum([i \in 1..Len(rows) |-> rows[i][j]])],
     sumsq |-> [j \in 1..width |-> Sum([i \in 1..Len(rows) |-> rows[i][j] * rows[i][j]])]]

\* np.column_stack((X_test, y_test)): the feature columns, then the label codes.
ColumnStack(rows, codes) == [i \in 1..Len(rows) |-> rows[i] \o <<codes[i]>>]

\* create_class / gen_sklearn_model can locate the class.
KnownClasses == {"sklearn.linear_model.LogisticRegression"}
ModelClasses == KnownClasses \cup {"no.such.Classifier"}
\* (Resolvable_Lazily: the class is not looked up before the fit.)
Resolvable_Lazily(cls) == TRUE
Resolvable(cls) == cls \in KnownClasses

Reports == <<"ROCAUC", "ClassificationReport", "ConfusionMatrix">>

\* The keys of the classification report's scores_, in order, and the
\* (score, class) pairs the double loop of lines 152-161 goes through.
ScoreNames == <<"precision", "recall", "f1">>
ScorePairs(cls) ==
    [k \in 1..(Len(ScoreNames) * Len(cls)) |->
        <<ScoreNames[((k - 1) \div Len(cls)) + 1], cls[((k - 1) % Len(cls)) + 1]>>]

\* The messages of context.logger.info, in the order of the source.
Markers ==
    <<"Read Data", "Prep Data", "Split and Train", "Evaluate", "Log artifacts",
      "Done!">>

\* ------------------------------------------------------------------ state
VARIABLES
    args,             \* the arguments of the call
    pc,               \* the statement train_model is about to run
    report_i,         \* the report loop's position in Reports (0 outside it)
    score_i,          \* how many scores of the classification report are logged
    err,              \* the exception that left train_model, if any
    log,              \* the messages written with context.logger.info
    client,           \* the dask client in use
    df,               \* the frame: its columns and the rows of each partition
    df_header,        \* the saved column names (line 86)
    encoder,          \* the label encoder's classes_, <<>> before the fit
    classes,          \* the class names handed to the reports (lines 94-95)
    X, y,             \* the feature rows with their columns and chunks; the codes
    X_train, X_test,  \* the split's feature rows
    y_train, y_test,  \* the split's label codes
    scaler,           \* the fitted scaler's statistics
    model,            \* "none", "unfitted" or "fitted"
    backend,          \* joblib's active parallel backend
    fitCalls,         \* how many times model.fit was invoked
    surface,          \* what matplotlib's current figure holds
    drawnOn,          \* per report, what the surface held when it drew
    extra_data_dict,  \* the reports whose plot was logged (line 143, 181)
    results,          \* the keys of context.results
    labels,           \* context.set_label
    store,            \* the artifact store's writes, in order
    testSet,          \* the held-out table written by log_dataset
    run,              \* the ordinal of this invocation
    first             \* what the first invocation computed

ctlVars  == <<pc, report_i, score_i, err, log>>
dataVars == <<client, df, df_header, encoder, classes, X, y, X_train, X_test,
              y_train, y_test, scaler, model>>
envVars  == <<backend, fitCalls, surface, drawnOn>>
ctxVars  == <<extra_data_dict, results, labels, store, testSet>>
runVars  == <<args, run, first>>
vars     == <<ctlVars, dataVars, envVars, ctxVars, runVars>>

NoErr     == [exc |-> "", line |-> 0]
NoFrame   == [cols |-> <<>>, parts |-> <<>>]
NoArray   == [rows |-> <<>>, cols |-> <<>>, chunks |-> <<>>]
NoScaler  == [count |-> 0, sum |-> <<>>, sumsq |-> <<>>]
NoTable   == [columns |-> <<>>, data |-> <<>>]
NoFirst   == [train |-> <<>>, test |-> <<>>, scaler |-> NoScaler]
NotDrawn  == [k \in Range(Reports) \cup {"FeatureImportances"} |-> "none"]

ArgSpace ==
    [dataset : Datasets,
     backendArg : {"dask_function", "dask_client", "none"},
     model_pkg_class : ModelClasses,
     label_column : {"label"},
     train_validation_size : {75, 50},
     sample : {100, 50},
     random_state : {42}]

\* The locals of a fresh invocation.
Fresh ==
    /\ pc = "start" /\ report_i = 0 /\ score_i = 0 /\ err = NoErr /\ log = <<>>
    /\ client = "none" /\ df = NoFrame /\ df_header = <<>>
    /\ encoder = <<>> /\ classes = <<>>
    /\ X = NoArray /\ y = <<>>
    /\ X_train = <<>> /\ X_test = <<>> /\ y_train = <<>> /\ y_test = <<>>
    /\ scaler = NoScaler /\ model = "none"
    /\ backend = "default" /\ fitCalls = 0
    /\ drawnOn = NotDrawn
    /\ extra_data_dict = <<>> /\ results = {} /\ labels = {}
    /\ store = <<>> /\ testSet = NoTable

Init ==
    /\ args \in ArgSpace
    /\ surface \in {"clean", "stale"}
    /\ run = 1 /\ first = NoFirst
    /\ Fresh

\* An exception leaves the handler: nothing catches it.
Raise(exc, line) == pc' = "failed" /\ err' = [exc |-> exc, line |-> line]

\* context.logger.info(msg)
Log(msg) == log' = Append(log, msg)

\* One column of a table of rows, and the table without it.
Column(rows, pos) == [i \in 1..Len(rows) |-> rows[i][pos]]
DropColumn(rows, pos) == [i \in 1..Len(rows) |-> Without(rows[i], pos)]

\* The rows of a sequence with how often each occurs.
Membership(rows) ==
    [v \in Range(rows) |-> Cardinality({i \in 1..Len(rows) : rows[i] = v})]

\* ---------------------------------------------------------------- actions
\* lines 64-70: mlrun.import_function(dask_function).client, the client
\* handed in, or ValueError
SetupClient ==
    /\ pc = "start"
    /\ \/ /\ args.backendArg = "dask_function"
          /\ client' = "imported" /\ pc' = "read" /\ err' = err
       \/ /\ args.backendArg = "dask_function"
          /\ Raise("FunctionError", 66) /\ client' = client
       \/ /\ args.backendArg = "dask_client"
          /\ client' = "given" /\ pc' = "read" /\ err' = err
       \/ /\ args.backendArg = "none"
          /\ Raise("ValueError", 70) /\ client' = client
    /\ UNCHANGED <<report_i, score_i, log, df, df_header, encoder, classes, X, y,
                   X_train, X_test, y_train, y_test, scaler, model>>
    /\ UNCHANGED <<envVars, ctxVars, runVars>>

\* lines 72-74: the "Read Data" message, then dataset.as_df(df_module=dd)
ReadData ==
    /\ pc = "read"
    /\ Log("Read Data")
    /\ \/ /\ df' = AsDf(args.dataset)
          /\ pc' = "prep" /\ err' = err
       \/ /\ Raise("DataItemError", 74) /\ df' = df
    /\ UNCHANGED <<report_i, score_i, client, df_header, encoder, classes, X, y,
                   X_train, X_test, y_train, y_test, scaler, model>>
    /\ UNCHANGED <<envVars, ctxVars, runVars>>

\* lines 76-83: the "Prep Data" message, the numeric filter and the
\* missing-value check
PrepData ==
    /\ pc = "prep"
    /\ Log("Prep Data")
    /\ df' = SelectDtypes(df)
    /\ IF HasNA(SelectDtypes(df).cols, args.dataset.nulls)
       THEN Raise("Exception", 83)
       ELSE pc' = "sample" /\ err' = err
    /\ UNCHANGED <<report_i, score_i, client, df_header, encoder, classes, X, y,
                   X_train, X_test, y_train, y_test, scaler, model>>
    /\ UNCHANGED <<envVars, ctxVars, runVars>>

\* lines 85-88: save the header, sample the rows (no seed is passed)
SampleRows ==
    /\ pc = "sample"
    /\ df_header' = Names(df.cols)
    /\ \E sampled \in SampleOutcomes(df.parts, args.sample) :
          df' = [df EXCEPT !.parts = sampled]
    /\ pc' = "encode"
    /\ UNCHANGED <<report_i, score_i, err, log, client, encoder, classes, X, y,
                   X_train, X_test, y_train, y_test, scaler, model>>
    /\ UNCHANGED <<envVars, ctxVars, runVars>>

\* (EncodeLabels_NoLookupError: a missing label column reads as a column of
\* zeros and nothing is dropped.)
EncodeLabels_NoLookupError ==
    /\ pc = "encode"
    /\ LET rows  == Flatten(df.parts)
           names == Names(df.cols)
           lab   == args.label_column
           found == lab \in Range(names)
           vals  == IF found THEN Column(rows, IndexOf(names, lab))
                             ELSE [i \in 1..Len(rows) |-> 0]
           cls   == LabelEncoderFit(vals)
       IN  /\ encoder' = cls
           /\ X' = [rows   |-> IF found THEN DropColumn(rows, IndexOf(names, lab)) ELSE rows,
                    cols   |-> SelectSeq(names, LAMBDA c : c # lab),
                    chunks |-> [i \in 1..Len(df.parts) |-> Len(df.parts[i])]]
           /\ y' = [i \in 1..Len(rows) |-> LabelEncoderTransform(cls, vals[i])]
           /\ classes' = DropDuplicates([i \in 1..Len(rows) |-> Str(vals[i])])
           /\ pc' = "split" /\ err' = err
    /\ UNCHANGED <<report_i, score_i, log, client, df, df_header, X_train, X_test,
                   y_train, y_test, scaler, model>>
    /\ UNCHANGED <<envVars, ctxVars, runVars>>

\* lines 89-95: df[label_column] raises KeyError when the column is absent
EncodeLabels ==
    /\ pc = "encode"
    /\ LET rows  == Flatten(df.parts)
           names == Names(df.cols)
           lab   == args.label_column
       IN  IF ~HasColumn(names, lab)
           THEN /\ Raise("KeyError", 90)
                /\ UNCHANGED <<encoder, classes, X, y>>
           ELSE LET pos  == IndexOf(names, lab)
                    vals == Column(rows, pos)
                    cls  == LabelEncoderFit(vals)
                IN  /\ encoder' = cls
                    /\ X' = [rows   |-> DropColumn(rows, pos),
                             cols   |-> Without(names, pos),
                             chunks |-> [i \in 1..Len(df.parts) |-> Len(df.parts[i])]]
                    /\ y' = [i \in 1..Len(rows) |-> LabelEncoderTransform(cls, vals[i])]
                    /\ classes' = DropDuplicates([i \in 1..Len(rows) |-> Str(vals[i])])
                    /\ pc' = "split" /\ err' = err
    /\ UNCHANGED <<report_i, score_i, log, client, df, df_header, X_train, X_test,
                   y_train, y_test, scaler, model>>
    /\ UNCHANGED <<envVars, ctxVars, runVars>>

\* lines 97-100: the "Split and Train" message, then the seeded split
Split ==
    /\ pc = "split"
    /\ Log("Split and Train")
    /\ LET sp == TrainTestSplit(X.chunks, args.train_validation_size, args.random_state)
       IN  IF ~sp.ok
           THEN /\ Raise("ValueError", 98)
                /\ UNCHANGED <<X_train, X_test, y_train, y_test>>
           ELSE /\ X_train' = Take(X.rows, sp.train)
                /\ X_test'  = Take(X.rows, sp.test)
                /\ y_train' = Take(y, sp.train)
                /\ y_test'  = Take(y, sp.test)
                /\ pc' = "scale" /\ err' = err
    /\ UNCHANGED <<report_i, score_i, client, df, df_header, encoder, classes, X, y,
                   scaler, model>>
    /\ UNCHANGED <<envVars, ctxVars, runVars>>

\* lines 102-105: the scaler is fitted on the train rows only
FitScaler ==
    /\ pc = "scale"
    /\ scaler' = StandardScalerFit(X_train, Len(X.cols))
    /\ pc' = "build"
    /\ UNCHANGED <<report_i, score_i, err, log, client, df, df_header, encoder,
                   classes, X, y, X_train, X_test, y_train, y_test, model>>
    /\ UNCHANGED <<envVars, ctxVars, runVars>>

\* lines 107-113: gen_sklearn_model and create_class import the class
BuildModel ==
    /\ pc = "build"
    /\ IF Resolvable(args.model_pkg_class)
       THEN model' = "unfitted" /\ pc' = "backend" /\ err' = err
       ELSE Raise("ModuleNotFoundError", 107) /\ model' = model
    /\ UNCHANGED <<report_i, score_i, log, client, df, df_header, encoder, classes,
                   X, y, X_train, X_test, y_train, y_test, scaler>>
    /\ UNCHANGED <<envVars, ctxVars, runVars>>

\* line 116: with joblib.parallel_backend("dask")
EnterBackend ==
    /\ pc = "backend"
    /\ backend' = "dask"
    /\ pc' = "fit"
    /\ UNCHANGED <<report_i, score_i, err, log, fitCalls, surface, drawnOn>>
    /\ UNCHANGED <<dataVars, ctxVars, runVars>>

\* (Fit_Retry: a failed fit goes back to the with statement once.)
Fit_Retry ==
    /\ pc = "fit"
    /\ fitCalls' = fitCalls + 1
    /\ backend' = "default"
    /\ \/ model' = "fitted" /\ pc' = "evaluate" /\ err' = err
       \/ /\ fitCalls < 2
          /\ pc' = "backend" /\ err' = err /\ model' = model
    /\ UNCHANGED <<report_i, score_i, log, surface, drawnOn, client, df, df_header,
                   encoder, classes, X, y, X_train, X_test, y_train, y_test, scaler>>
    /\ UNCHANGED <<ctxVars, runVars>>

\* line 119: model.fit; leaving the with block restores the backend either way
Fit ==
    /\ pc = "fit"
    /\ fitCalls' = fitCalls + 1
    /\ backend' = "default"
    /\ \/ model' = "fitted" /\ pc' = "evaluate" /\ err' = err
       \/ Raise("FitError", 119) /\ model' = model
    /\ UNCHANGED <<report_i, score_i, log, surface, drawnOn, client, df, df_header,
                   encoder, classes, X, y, X_train, X_test, y_train, y_test, scaler>>
    /\ UNCHANGED <<ctxVars, runVars>>

Plot(k)     == [kind |-> "plot", key |-> k]
Artifact(k) == [kind |-> "artifact", key |-> k]

\* lines 121-124: the "Evaluate" message, extra_data_dict = {} and the
\* report loop's first iteration
BeginEvaluate ==
    /\ pc = "evaluate"
    /\ Log("Evaluate")
    /\ extra_data_dict' = <<>>
    /\ report_i' = 1
    /\ pc' = "clear"
    /\ UNCHANGED <<score_i, err, results, labels, store, testSet>>
    /\ UNCHANGED <<dataVars, envVars, runVars>>

\* lines 126-130: plt.cla(); plt.clf(); plt.close()
ClearOutput ==
    /\ pc = "clear"
    /\ surface' = "clean"
    /\ pc' = "report"
    /\ UNCHANGED <<report_i, score_i, err, log, backend, fitCalls, drawnOn>>
    /\ UNCHANGED <<dataVars, ctxVars, runVars>>

\* lines 132-137: the report is built (133), fitted (134) and scored (135);
\* scoring draws on the current figure.  Any of the three calls may raise,
\* and then nothing has been drawn.
GenerateReport ==
    /\ pc = "report"
    /\ \/ /\ drawnOn' = [drawnOn EXCEPT ![Reports[report_i]] = surface]
          /\ surface' = Reports[report_i]
          /\ pc' = "log_plot" /\ err' = err
       \/ /\ \E line \in {133, 134, 135} : Raise("ReportError", line)
          /\ UNCHANGED <<drawnOn, surface>>
    /\ UNCHANGED <<report_i, score_i, log, backend, fitCalls>>
    /\ UNCHANGED <<dataVars, ctxVars, runVars>>

\* lines 139-143: context.log_artifact(PlotArtifact(...))
LogPlot ==
    /\ pc = "log_plot"
    /\ \/ /\ store' = Append(store, Plot(Reports[report_i]))
          /\ extra_data_dict' = Append(extra_data_dict, Reports[report_i])
          /\ pc' = "log_results" /\ err' = err
       \/ /\ Raise("ArtifactError", 140)
          /\ UNCHANGED <<store, extra_data_dict>>
    /\ UNCHANGED <<report_i, score_i, log, results, labels, testSet>>
    /\ UNCHANGED <<dataVars, envVars, runVars>>

\* The loop's next iteration, or the statement after the loop.
NextReport ==
    IF report_i < Len(Reports)
    THEN report_i' = report_i + 1 /\ pc' = "clear"
    ELSE report_i' = report_i /\ pc' = "fi_report"

\* lines 145-161: one context.log_results call.  ROCAUC logs micro and macro
\* in a single call (147); ClassificationReport makes one call per score and
\* class (155), so a call that raises leaves the earlier ones' results in
\* place; ConfusionMatrix logs nothing.
LogResults ==
    /\ pc = "log_results"
    /\ \/ /\ Reports[report_i] = "ROCAUC"
          /\ results' = results \cup {<<"micro">>, <<"macro">>}
          /\ NextReport /\ err' = err /\ score_i' = score_i
       \/ /\ Reports[report_i] = "ROCAUC"
          /\ Raise("ArtifactError", 147)
          /\ UNCHANGED <<results, report_i, score_i>>
       \/ /\ Reports[report_i] = "ClassificationReport"
          /\ results' = results \cup {ScorePairs(classes)[score_i + 1]}
          /\ err' = err
          /\ IF score_i + 1 = Len(ScorePairs(classes))
             THEN score_i' = 0 /\ NextReport
             ELSE score_i' = score_i + 1 /\ UNCHANGED <<pc, report_i>>
       \/ /\ Reports[report_i] = "ClassificationReport"
          /\ Raise("ArtifactError", 155)
          /\ UNCHANGED <<results, report_i, score_i>>
       \/ /\ Reports[report_i] = "ConfusionMatrix"
          /\ results' = results
          /\ NextReport /\ err' = err /\ score_i' = score_i
    /\ UNCHANGED <<log, extra_data_dict, labels, store, testSet>>
    /\ UNCHANGED <<dataVars, envVars, runVars>>

\* lines 165-174: FeatureImportances is built (166), fitted (173) and scored
\* (174).  The fit draws on the current figure, so a score that raises
\* leaves the drawing behind; the two earlier calls raise before any drawing.
FeatureImportance ==
    /\ pc = "fi_report"
    /\ \/ /\ drawnOn' = [drawnOn EXCEPT !["FeatureImportances"] = surface]
          /\ surface' = "FeatureImportances"
          /\ pc' = "fi_log" /\ err' = err
       \/ /\ \E line \in {166, 173} : Raise("ReportError", line)
          /\ UNCHANGED <<drawnOn, surface>>
       \/ /\ drawnOn' = [drawnOn EXCEPT !["FeatureImportances"] = surface]
          /\ surface' = "FeatureImportances"
          /\ Raise("ReportError", 174)
    /\ UNCHANGED <<report_i, score_i, log, backend, fitCalls>>
    /\ UNCHANGED <<dataVars, ctxVars, runVars>>

\* lines 177-181
LogFeatureImportance ==
    /\ pc = "fi_log"
    /\ \/ /\ store' = Append(store, Plot("FeatureImportances"))
          /\ extra_data_dict' = Append(extra_data_dict, "FeatureImportances")
          /\ pc' = "final_clear" /\ err' = err
       \/ /\ Raise("ArtifactError", 177)
          /\ UNCHANGED <<store, extra_data_dict>>
    /\ UNCHANGED <<report_i, score_i, log, results, labels, testSet>>
    /\ UNCHANGED <<dataVars, envVars, runVars>>

\* lines 183-186: clear final output
FinalClear ==
    /\ pc = "final_clear"
    /\ surface' = "clean"
    /\ pc' = "log_model"
    /\ UNCHANGED <<report_i, score_i, err, log, backend, fitCalls, drawnOn>>
    /\ UNCHANGED <<dataVars, ctxVars, runVars>>

\* lines 188-204: the "Log artifacts" message, set the label, log the model
LogModel ==
    /\ pc = "log_model"
    /\ Log("Log artifacts")
    /\ labels' = {<<"class", args.model_pkg_class>>}
    /\ \/ /\ store' = Append(store, [kind |-> "model", key |-> "model",
                                   extra_data |-> extra_data_dict,
                                   metrics |-> results])
          /\ pc' = "log_scaler" /\ err' = err
       \/ /\ Raise("ArtifactError", 196)
          /\ store' = store
    /\ UNCHANGED <<report_i, score_i, extra_data_dict, results, testSet>>
    /\ UNCHANGED <<dataVars, envVars, runVars>>

\* (LogScaler_Continue: a failed scaler write is swallowed.)
LogScaler_Continue ==
    /\ pc = "log_scaler"
    /\ \/ /\ store' = Append(store, Artifact("standard_scaler"))
          /\ pc' = "log_encoder" /\ err' = err
       \/ /\ pc' = "log_encoder" /\ err' = err
          /\ store' = store
    /\ UNCHANGED <<report_i, score_i, log, extra_data_dict, results, labels, testSet>>
    /\ UNCHANGED <<dataVars, envVars, runVars>>

\* lines 206-213
LogScaler ==
    /\ pc = "log_scaler"
    /\ \/ /\ store' = Append(store, Artifact("standard_scaler"))
          /\ pc' = "log_encoder" /\ err' = err
       \/ /\ Raise("ArtifactError", 207)
          /\ store' = store
    /\ UNCHANGED <<report_i, score_i, log, extra_data_dict, results, labels, testSet>>
    /\ UNCHANGED <<dataVars, envVars, runVars>>

\* lines 215-222
LogEncoder ==
    /\ pc = "log_encoder"
    /\ \/ /\ store' = Append(store, Artifact("label_encoder"))
          /\ pc' = "log_dataset" /\ err' = err
       \/ /\ Raise("ArtifactError", 216)
          /\ store' = store
    /\ UNCHANGED <<report_i, score_i, log, extra_data_dict, results, labels, testSet>>
    /\ UNCHANGED <<dataVars, envVars, runVars>>

\* (HeldOutTable_TrainRows: the train partition stacked for the test one.)
HeldOutTable_TrainRows ==
    [columns |-> df_header, data |-> ColumnStack(X_train, y_train)]

\* line 225 and line 228: the table handed to log_dataset.  The stacked
\* array has one column per feature and one for the codes, as many as the
\* header has names, so the DataFrame constructor accepts it.
HeldOutTable ==
    [columns |-> df_header, data |-> ColumnStack(X_test, y_test)]

\* lines 224-235: the held-out table is logged, "Done!" is written and the
\* handler returns
LogDataset ==
    /\ pc = "log_dataset"
    /\ \/ /\ testSet' = HeldOutTable
          /\ store' = Append(store, [kind |-> "dataset", key |-> "test_set"])
          /\ Log("Done!")
          /\ pc' = "done" /\ err' = err
       \/ /\ Raise("ArtifactError", 226)
          /\ UNCHANGED <<store, testSet, log>>
    /\ UNCHANGED <<report_i, score_i, extra_data_dict, results, labels>>
    /\ UNCHANGED <<dataVars, envVars, runVars>>

\* train_model is called again with the same arguments: its locals and the
\* run's context start afresh; the first run's split and scaler are kept
\* for comparison.
Rerun ==
    /\ pc = "done"
    /\ run < MaxRuns
    /\ run' = run + 1
    /\ first' = IF run = 1
                THEN [train |-> Membership(X_train), test |-> Membership(X_test),
                      scaler |-> scaler]
                ELSE first
    /\ pc' = "start" /\ report_i' = 0 /\ score_i' = 0 /\ err' = NoErr /\ log' = <<>>
    /\ client' = "none" /\ df' = NoFrame /\ df_header' = <<>>
    /\ encoder' = <<>> /\ classes' = <<>>
    /\ X' = NoArray /\ y' = <<>>
    /\ X_train' = <<>> /\ X_test' = <<>> /\ y_train' = <<>> /\ y_test' = <<>>
    /\ scaler' = NoScaler /\ model' = "none"
    /\ fitCalls' = 0 /\ drawnOn' = NotDrawn
    /\ extra_data_dict' = <<>> /\ results' = {} /\ labels' = {}
    /\ store' = <<>> /\ testSet' = NoTable
    /\ UNCHANGED <<args, backend, surface>>

Next ==
    \/ SetupClient \/ ReadData \/ PrepData \/ SampleRows \/ EncodeLabels
    \/ Split \/ FitScaler \/ BuildModel \/ EnterBackend \/ Fit
    \/ BeginEvaluate \/ ClearOutput \/ GenerateReport \/ LogPlot \/ LogResults
    \/ FeatureImportance \/ LogFeatureImportance \/ FinalClear
    \/ LogModel \/ LogScaler \/ LogEncoder \/ LogDataset
    \/ Rerun

Spec == Init /\ [][Next]_vars

\* ------------------------------------------------------------ properties
BackendGiven == args.backendArg # "none"

\* The descriptor names a class that exists.
ClassExists == args.model_pkg_class \in KnownClasses

\* The exceptions that come out of a collaborator (the data item, the
\* cluster, a report generator, the artifact store) rather than out of the
\* dataset or the descriptor.
CollaboratorFailure ==
    err.exc \in {"FunctionError", "DataItemError", "FitError", "ReportError",
                 "ArtifactError"}

Count(key) == Cardinality({i \in 1..Len(store) : store[i].key = key})

OneOfEachBundleArtifact ==
    /\ Count("model") = 1
    /\ Count("standard_scaler") = 1
    /\ Count("label_encoder") = 1
    /\ Count("test_set") = 1

\* Scenario A as the specification words it: the label column holds strings.
ScenarioA ==
    /\ args.dataset = DS_ScenarioA
    /\ args.train_validation_size = 75 /\ args.sample = 100
    /\ ClassExists /\ BackendGiven

\* Scenario A with a numeric label column, the frame held in one partition.
ScenarioANumeric ==
    /\ args.dataset = DS_Numeric100
    /\ args.train_validation_size = 75 /\ args.sample = 100
    /\ ClassExists /\ BackendGiven

\* C1 as stated: in scenario A (string labels) train_model runs to
\* completion (it ends in failure only when a collaborator fails) and writes
\* exactly one model, scaler, encoder and held-out dataset artifact, the
\* held-out table having 25 rows and exactly the columns [f1, f2].
C1_ScenarioA_AsStated ==
    ScenarioA =>
        /\ pc = "failed" => CollaboratorFailure
        /\ pc = "done" =>
              /\ OneOfEachBundleArtifact
              /\ Len(testSet.data) = 25
              /\ testSet.columns = <<"f1", "f2">>

\* C1 amended: with a numeric label column (100 rows in one partition,
\* train fraction 0.75, sample fraction 1.0, a resolvable class) the run
\* ends in failure only when a collaborator fails, and a completed run has
\* written exactly one model, scaler, encoder and held-out dataset artifact,
\* the held-out table having 25 rows of three values under the columns
\* [f1, f2, label].  With the string label column of scenario A the numeric
\* filter removes the label, the run never completes, and once the frame is
\* loaded it ends with KeyError at line 90 with nothing written.
C1_ScenarioA_Amended ==
    /\ ScenarioANumeric =>
          /\ pc = "failed" => CollaboratorFailure
          /\ pc = "done" =>
                /\ OneOfEachBundleArtifact
                /\ Len(testSet.data) = 25
                /\ \A i \in 1..Len(testSet.data) : Len(testSet.data[i]) = 3
                /\ testSet.columns = <<"f1", "f2", "label">>
    /\ ScenarioA =>
          /\ pc # "done"
          /\ store = <<>>
          /\ (pc = "failed" /\ ~CollaboratorFailure) => err = [exc |-> "KeyError", line |-> 90]

C1_Witness ==
    /\ ScenarioANumeric /\ pc = "done"
    /\ Len(testSet.data) = 25 /\ OneOfEachBundleArtifact

\* A retained (numeric) column of the dataset holds a missing value.
NullRetained ==
    \E i \in 1..Len(args.dataset.cols) :
        /\ args.dataset.cols[i].dtype \in NumericDtypes
        /\ args.dataset.cols[i].name \in args.dataset.nulls

NothingWritten ==
    store = <<>> /\ results = {} /\ testSet = NoTable /\ extra_data_dict = <<>>

FitNeverStarted == fitCalls = 0 /\ backend = "default" /\ model # "fitted"

\* C2 (scenario C): when a column that survives the numeric filter holds a
\* missing value, the run gets no further than the check of line 82: once
\* the frame is loaded it can only end with the exception of line 83 (the
\* specification's InvalidDataset), and in every state of the run nothing
\* has been written to the artifact store and the fit has not started.
C2_NullAbortsBeforeAnyWrite ==
    NullRetained =>
        /\ pc \in {"start", "read", "prep", "failed"}
        /\ (pc = "failed" /\ err.line \notin {66, 70, 74}) => err = [exc |-> "Exception", line |-> 83]
        /\ NothingWritten
        /\ FitNeverStarted

C2_Witness ==
    /\ NullRetained /\ pc = "failed" /\ err = [exc |-> "Exception", line |-> 83]
    /\ log = <<"Read Data", "Prep Data">>

\* The configured label column is not among the dataset's numeric columns.
LabelAbsent ==
    ~\E i \in 1..Len(args.dataset.cols) :
        /\ args.dataset.cols[i].dtype \in NumericDtypes
        /\ args.dataset.cols[i].name = args.label_column

\* C3 (scenario B): when the frame lacks the label column after the numeric
\* filter, the run gets no further than line 90: once the frame is loaded
\* and found complete it can only end with the KeyError of line 90 (the
\* specification's InvalidDataset), before model.fit is invoked and before
\* anything is written to the artifact store.
C3_MissingLabelAbortsBeforeFit ==
    LabelAbsent =>
        /\ pc \in {"start", "read", "prep", "sample", "encode", "failed"}
        /\ (pc = "failed" /\ err.line \notin {66, 70, 74, 83}) => err = [exc |-> "KeyError", line |-> 90]
        /\ NothingWritten
        /\ FitNeverStarted
        /\ model = "none" /\ encoder = <<>>

C3_Witness ==
    /\ LabelAbsent /\ pc = "failed" /\ err = [exc |-> "KeyError", line |-> 90]
    /\ df_header # <<>>

\* C4 (scenario D): when the descriptor names a class that cannot be
\* located, a run that gets as far as building the model (the scaler is
\* fitted by then) ends there with the import error of line 107 (the
\* specification's UnresolvableClass); the dask backend context is never
\* entered, model.fit is never called and nothing is written.
C4_UnresolvableClassAbortsBeforeFit ==
    ~ClassExists =>
        /\ FitNeverStarted
        /\ NothingWritten
        /\ model = "none"
        /\ pc \notin {"backend", "fit", "evaluate", "done"}
        /\ (pc = "failed" /\ scaler # NoScaler)
              => err = [exc |-> "ModuleNotFoundError", line |-> 107]

C4_Witness ==
    /\ ~ClassExists
    /\ pc = "failed" /\ err.line = 107
    /\ scaler # NoScaler /\ log = <<"Read Data", "Prep Data", "Split and Train">>

\* The specification's stage the statement at pc belongs to: 1 Data Loader,
\* 2 Feature Preparer, 3 Partitioner/Scaler, 4 Model Builder, 5 Distributed
\* Fitter, 6 Evaluator, 7 Artifact Logger (0: before the first, 8: returned).
StageOf(p) ==
    CASE p \in {"start"}                                   -> 0
      [] p \in {"read"}                                    -> 1
      [] p \in {"prep", "sample", "encode"}                -> 2
      [] p \in {"split", "scale"}                          -> 3
      [] p \in {"build"}                                   -> 4
      [] p \in {"backend", "fit"}                          -> 5
      [] p \in {"evaluate", "clear", "report", "log_plot", "log_results",
                "fi_report", "fi_log", "final_clear"}      -> 6
      [] p \in {"log_model", "log_scaler", "log_encoder", "log_dataset"} -> 7
      [] OTHER                                             -> 8

\* Within one invocation a step stays in its stage or moves to the next one,
\* writes at most the next message of the source, and follows no failure.
StageStep ==
    run' = run =>
        /\ pc # "failed"
        /\ pc' # "failed" => StageOf(pc') \in {StageOf(pc), StageOf(pc) + 1}
        /\ \/ log' = log
           \/ /\ Len(log) < Len(Markers)
              /\ log' = Append(log, Markers[Len(log) + 1])

\* C5: in every run the seven stages execute strictly in the order Data
\* Loader, Feature Preparer, Partitioner/Scaler, Model Builder, Distributed
\* Fitter, Evaluator, Artifact Logger: a step stays in its stage or moves to
\* the one that follows it (none is skipped, re-entered or started before
\* its predecessor is over), model.fit is invoked at most once, no step
\* follows a failure, and the messages logged are always a prefix of the
\* source's, all six being there exactly when the run completes.
C5_StagesStrictlyLinear ==
    /\ [](/\ IsPrefix(log, Markers)
          /\ fitCalls <= 1
          /\ pc = "done" <=> log = Markers)
    /\ [][StageStep]_vars

C5_Witness ==
    /\ pc = "failed" /\ err.line = 119
    /\ log = SubSeq(Markers, 1, 3) /\ fitCalls = 1

AllReports == Range(Reports) \cup {"FeatureImportances"}

\* The report whose generation raised.
FailedReport ==
    IF err.line \in {133, 134, 135} THEN Reports[report_i] ELSE "FeatureImportances"

\* C6: the evaluation reports are independent: when the generation of one
\* report kind fails, each of the other three kinds has still been fitted,
\* scored and had its figure captured by the time the run ends.
C6_ReportsIndependent ==
    (pc = "failed" /\ err.exc = "ReportError") =>
        \A k \in AllReports \ {FailedReport} : k \in Range(extra_data_dict)

\* C7: every report draws on a surface that has been cleared since the
\* previous report drew: no report finds another report's state on it.
C7_SurfaceClearedBeforeEachReport ==
    \A k \in AllReports : drawnOn[k] \in {"none", "clean"}

\* C8: a second run with identical arguments arrives at the same train and
\* test row memberships and the same fitted scaler parameters as the first.
C8_RunsIdentical ==
    (run = 2 /\ scaler # NoScaler) =>
        /\ Membership(X_train) = first.train
        /\ Membership(X_test) = first.test
        /\ scaler = first.scaler

BundleKinds == {"model", "artifact", "dataset"}
BundleOrder == <<"model", "standard_scaler", "label_encoder", "test_set">>
Bundle == LET b == SelectSeq(store, LAMBDA a : a.kind \in BundleKinds)
          IN  [i \in 1..Len(b) |-> b[i].key]
BundleWriteLines == <<196, 207, 216, 226>>

\* C9: the persisted bundle artifacts are always a prefix of (model, scaler,
\* label encoder, held-out dataset); a failing bundle write ends the run
\* with exactly the artifacts before it persisted; and the run reports
\* completion only with all four written.
C9_BundleWrittenInOrder ==
    /\ IsPrefix(Bundle, BundleOrder)
    /\ pc = "done" => Bundle = BundleOrder
    /\ \A n \in 1..Len(BundleWriteLines) :
          (pc = "failed" /\ err.line = BundleWriteLines[n])
              => Bundle = SubSeq(BundleOrder, 1, n - 1)
    /\ pc \in {"log_encoder", "log_dataset"} => Count("standard_scaler") = 1

C9_Witness ==
    /\ pc = "failed" /\ err = [exc |-> "ArtifactError", line |-> 216]
    /\ Bundle = <<"model", "standard_scaler">>

\* C10: in the held-out table every column carries its own name: under the
\* label column's name stand the test rows' label codes, under a feature's
\* name that feature's (unscaled) values of the test rows.
C10_ColumnsCarryTheirNames ==
    pc = "done" =>
        \A i \in 1..Len(testSet.data) : \A j \in 1..Len(testSet.columns) :
            testSet.data[i][j] =
                IF testSet.columns[j] = args.label_column
                THEN y_test[i]
                ELSE X_test[i][IndexOf(X.cols, testSet.columns[j])]

=============================================================================
